---------------------------- MODULE Spec2Model ----------------------------
(***************************************************************************)
(* Model of the vacancy search client (src/src/api.py, class HH) and of    *)
(* the JSON file store (src/src/storage.py, class JSONStorage).            *)
(*                                                                         *)
(* Python values are represented as follows:                               *)
(*   - an Optional[int] argument is a tuple: None is <<>>, the integer v   *)
(*     is <<v>>;                                                           *)
(*   - a str is a sequence of one-character strings;                       *)
(*   - a dict is a function whose domain is the set of its keys;           *)
(*   - the text f"{a}-{b}" is the pair <<a, b>>.                           *)
(***************************************************************************)
EXTENDS Integers, Sequences, FiniteSets, TLC

VARIABLES
    \* ---- HH.load_vacancies (src/src/api.py) ----
    pc,          \* position inside load_vacancies
    args,        \* the arguments of the call in progress
    max_pages,   \* local max_pages after defaulting and clamping
    params,      \* local dict params
    page,        \* loop variable of "for page in range(max_pages)"
    vacancies,   \* local accumulator list
    outcome,     \* how the call ended: "return" or the exception raised
    returned,    \* the list returned to the caller
    probes,      \* number of requests issued by connect()
    probeResult, \* how the request of connect() ended: "ok" or "failed"
    probe,       \* what self._session.get did in connect()
    requests,    \* params of every page request issued, in order
    lastData,    \* JSON body of the last page response
    received,    \* items lists of the page responses, in arrival order
    \* ---- JSONStorage (src/src/storage.py) ----
    file,        \* contents of the backing file
    storeOp,     \* the last store operation: name, argument, the file it
                 \* found, the exception it raised, the value it returned
    prevStoreOp, \* the store operation before the last one
    \* ---- Vacancy (src/src/vacancy.py) ----
    vacArg,      \* the call on Vacancy to make and its inputs
    vacOp,       \* the last operation on Vacancy: name, inputs, the exception
                 \* it raised, the value it returned
    \* ---- the session of HH (src/src/api.py, _setup_session) ----
    retry_total, \* Retry.total of the adapter: self._max_retries
    attempts,    \* what each attempt of the request in progress met, in order
    delivered,   \* what session.get hands to its caller; NoProbe while it runs
    \* ---- the console: UserInterface (src/src/utils.py), main.py ----
    ui,          \* UserInterface.run: "menu", "exited" (break) or "crashed"
                 \* (an exception left run)
    uiSession,   \* the session of self.api: "open" or "closed"
    uiEvent,     \* the last turn of the menu: the choice, the exception that
                 \* left the handler, what was printed, the vacancies listed
    mainPc,      \* user_interaction of main.py: "start", "with", "leaving", "done"
    mainSession, \* the session of hh_parser: "none", "open" or "closed"
    mainOutcome, \* how load_vacancies ended in main.py, and on which session
    \* ---- two processes in add_vacancies on one file (src/src/storage.py) ----
    wpc,         \* per writer: "start", "loaded" (line 61 done) or "done"
    wvacs,       \* per writer: the argument vacancies
    wexisting,   \* per writer: its local variable existing
    werror,      \* per writer: the exception its call raised, "none" if none
    wsteps,      \* the steps taken so far, in order: <<writer, "load" or "rewrite">>
    wstart       \* the file before the first step

searchVars == <<pc, args, max_pages, params, page, vacancies, outcome,
                returned, probes, probeResult, probe, requests, lastData,
                received>>
storeVars == <<file, storeOp, prevStoreOp>>
vacVars == <<vacArg, vacOp>>
transportVars == <<retry_total, attempts, delivered>>
consoleVars == <<ui, uiSession, uiEvent, mainPc, mainSession, mainOutcome>>
writerVars == <<wpc, wvacs, wexisting, werror, wsteps, wstart>>
auxVars == <<transportVars, consoleVars, writerVars>>
vars == <<searchVars, storeVars, vacVars, auxVars>>

-----------------------------------------------------------------------------
(* Bounds of the model *)

\* page responses carry between 1 and MaxItems items when not empty
MaxItems == 2
\* the page size varies only on the first VaryPages pages of one search
VaryPages == 2
\* the "pages" field of a response ranges over 0..MaxReportedPages, or HugePages
MaxReportedPages == 3
HugePages == 25

-----------------------------------------------------------------------------
(* Python helpers *)

None == <<>>
Some(v) == <<v>>
Val(o) == o[1]

Min(a, b) == IF a <= b THEN a ELSE b

EmptyDict == [k \in {} |-> 0]

\* characters str.strip() removes (the whitespace characters of the model)
Whitespace == {" ", "\t", "\n"}

RECURSIVE LStrip(_)
LStrip(s) == IF s # <<>> /\ Head(s) \in Whitespace THEN LStrip(Tail(s)) ELSE s

RECURSIVE RStrip(_)
RStrip(s) ==
    IF s # <<>> /\ s[Len(s)] \in Whitespace
    THEN RStrip(SubSeq(s, 1, Len(s) - 1))
    ELSE s

\* str.strip()
strip(s) == RStrip(LStrip(s))

\* Python truthiness of an Optional[int]: None and 0 are falsy
Truthy(o) == o # None /\ Val(o) # 0

\* dict.get(key, default)
Get(d, key, default) == IF key \in DOMAIN d THEN d[key] ELSE default

-----------------------------------------------------------------------------
(* Class constants of HH *)

DEFAULT_PER_PAGE == 100
MAX_PAGES == 20

-----------------------------------------------------------------------------
(* Arguments of load_vacancies that the model enumerates *)

Keywords ==
    { <<>>, <<" ">>, <<" ", "\t">>, <<"a">>, <<" ", "a", "b", " ">> }
MaxPagesArgs == { None, Some(-1), Some(0), Some(1), Some(3), Some(21) }
PerPageArgs == { 50, 150 }
AreaArgs == { None, Some(0), Some(113) }
SalaryFromArgs == { None, Some(0), Some(1000) }
SalaryToArgs == { None, Some(0), Some(2000) }

AllArgs ==
    [keyword : Keywords, max_pages : MaxPagesArgs, per_page : PerPageArgs,
     area : AreaArgs, salary_from : SalaryFromArgs, salary_to : SalaryToArgs]

\* the calls of the model: every combination of the arguments above, except
\* that the searches of several pages ask for more than DEFAULT_PER_PAGE items
\* a page and the searches of MAX_PAGES pages (max_pages not given, or more
\* asked for) carry no salary filter
CallArgs ==
    { a \in AllArgs :
        /\ (a.max_pages # None /\ Val(a.max_pages) > 1)
              => a.per_page > DEFAULT_PER_PAGE
        /\ a.max_pages = None => (a.salary_from = None /\ a.salary_to = None)
        /\ (a.max_pages # None /\ Val(a.max_pages) > MAX_PAGES)
              => (a.salary_from = None /\ a.salary_to = None /\ a.per_page > DEFAULT_PER_PAGE) }

NoArgs ==
    [keyword |-> <<>>, max_pages |-> None, per_page |-> DEFAULT_PER_PAGE,
     area |-> None, salary_from |-> None, salary_to |-> None]

-----------------------------------------------------------------------------
(* The provider: what a page request can be answered with *)

\* the i-th raw item of page p
Item(p, i) == [page |-> p, pos |-> i]
ItemsOf(p, n) == [i \in 1..n |-> Item(p, i)]
PageSizes(p) == IF p < VaryPages THEN 1..MaxItems ELSE {1}
ReportedPages == (0..MaxReportedPages) \cup {HugePages}

\* the "items" entry of a response body: missing, empty or non-empty
ItemsDicts(p) ==
    {EmptyDict} \cup
    { "items" :> its : its \in {<<>>} \cup { ItemsOf(p, n) : n \in PageSizes(p) } }
\* the "pages" entry of a response body: missing or a count
PagesDicts == {EmptyDict} \cup { "pages" :> t : t \in ReportedPages }
\* response.json() of a successful page request
Responses(p) == { i @@ g : i \in ItemsDicts(p), g \in PagesDicts }

-----------------------------------------------------------------------------
(* HH.load_vacancies *)

\* variant of ClampMaxPages: the ceiling MAX_PAGES is not applied
ClampMaxPages_NoCeiling(mp) == IF mp = None THEN 2 ELSE Val(mp)

\* max_pages after "if max_pages is None: max_pages = 2" and the clamp
ClampMaxPages(mp) == Min(IF mp = None THEN 2 ELSE Val(mp), MAX_PAGES)

\* the value of params["salary_range"]
SalaryRange(salary_from, salary_to) ==
    IF Truthy(salary_from) /\ Truthy(salary_to)
    THEN <<Val(salary_from), Val(salary_to)>>
    ELSE <<0, Val(salary_to)>>

\* variant of BuildParams: an omitted area is replaced by the constant 113
BuildParams_Substituted(a) ==
    LET base == [text |-> strip(a.keyword),
                 per_page |-> Min(a.per_page, DEFAULT_PER_PAGE),
                 page |-> 0]
        p1 == ("area" :> (IF a.area # None THEN Val(a.area) ELSE 113)) @@ base
        p2 == IF a.salary_from # None
              THEN ("salary" :> Val(a.salary_from)) @@ p1
              ELSE p1
    IN  IF a.salary_to # None
        THEN ("salary_range" :> SalaryRange(a.salary_from, a.salary_to)) @@ p2
        ELSE p2

\* the dict params as built before the first request
BuildParams(a) ==
    LET base == [text |-> strip(a.keyword),
                 per_page |-> Min(a.per_page, DEFAULT_PER_PAGE),
                 page |-> 0]
        p1 == IF a.area # None THEN ("area" :> Val(a.area)) @@ base ELSE base
        p2 == IF a.salary_from # None
              THEN ("salary" :> Val(a.salary_from)) @@ p1
              ELSE p1
    IN  IF a.salary_to # None
        THEN ("salary_range" :> SalaryRange(a.salary_from, a.salary_to)) @@ p2
        ELSE p2

\* variant of ValidKeyword: the keyword is tested without strip()
ValidKeyword_Unstripped(keyword) == keyword # <<>>

\* "if not keyword.strip()" is false
ValidKeyword(keyword) == strip(keyword) # <<>>

\* variant of NoItems: the loop has no test for an empty page
NoItems_Untested(items) == FALSE

\* "if not items"
NoItems(items) == items = <<>>

\* variant of Extend: the accumulator is overwritten by the page
Extend_Overwrite(v, items) == items

\* vacancies.extend(items)
Extend(v, items) == v \o items

\* variant of LastPage: the last index is taken to be total_pages
LastPage_OffByOne(p, total_pages) == p >= total_pages

\* "if page >= total_pages - 1"
LastPage(p, total_pages) == p >= total_pages - 1

\* "raise <exc>" out of load_vacancies
Raise(exc) ==
    /\ pc' = "done"
    /\ outcome' = exc
    /\ returned' = <<>>

\* "return vacancies"
Return(v) ==
    /\ pc' = "done"
    /\ outcome' = "return"
    /\ returned' = v

\* variant of ConnectExcept: connect() reports the failure by its return
\* value, which load_vacancies does not read
ConnectExcept_Swallowed ==
    /\ pc' = "loop"
    /\ UNCHANGED <<outcome, returned>>

\* the except clause of connect(); the exception leaves load_vacancies
ConnectExcept == Raise("ConnectionError")

\* variant of PagingExcept: the pages loaded so far are returned
PagingExcept_Partial == Return(vacancies)

\* variant of PagingExcept: the failure is raised as that of the probe is
PagingExcept_AsProbe == Raise("ConnectionError")

\* the except clause of load_vacancies
PagingExcept == Raise("ParserError")

\* the call, up to the connectivity check
load_vacancies(a) ==
    /\ pc = "idle"
    /\ args' = a
    /\ IF ~ValidKeyword(a.keyword)
       THEN /\ Raise("ValueError")
            /\ UNCHANGED <<max_pages, params>>
       ELSE /\ max_pages' = ClampMaxPages(a.max_pages)
            /\ params' = BuildParams(a)
            /\ pc' = "connect"
            /\ UNCHANGED <<outcome, returned>>
    /\ UNCHANGED <<page, vacancies, probes, probeResult, probe, requests,
                   lastData, received>>
    /\ UNCHANGED <<storeVars, vacVars, auxVars>>

\* what self._session.get(self._url, params={"per_page": 1}, ...) does: it
\* raises an exception of requests.exceptions or returns a response. The
\* session retries the statuses of status_forcelist and raises RetryError when
\* they persist, so a response carries another status.
NoProbe == [exception |-> "none", status |-> 0]
Responds(status) == [exception |-> "none", status |-> status]
Throws(exception) == [exception |-> exception, status |-> 0]
ProbeOutcomes ==
    {Responds(200), Responds(404),
     Throws("ConnectionError"), Throws("Timeout"), Throws("RetryError")}

\* variant of ProbeRaises: the status of the response is not looked at
ProbeRaises_NoStatusCheck(r) == r.exception # "none"

\* the try block of connect() raises RequestException: session.get raised
\* it, or response.raise_for_status() did for a status from 400 to 599
ProbeRaises(r) ==
    \/ r.exception # "none"
    \/ r.status >= 400 /\ r.status < 600

\* self.connect() returns True
ConnectOk ==
    /\ pc = "connect"
    /\ \E r \in ProbeOutcomes :
         /\ ~ProbeRaises(r)
         /\ probe' = r
    /\ probes' = probes + 1
    /\ probeResult' = "ok"
    /\ vacancies' = <<>>
    /\ page' = 0
    /\ pc' = "loop"
    /\ UNCHANGED <<args, max_pages, params, outcome, returned, requests,
                   lastData, received>>
    /\ UNCHANGED <<storeVars, vacVars, auxVars>>

\* self.connect() raises ConnectionError from its except clause
ConnectFail ==
    /\ pc = "connect"
    /\ \E r \in ProbeOutcomes :
         /\ ProbeRaises(r)
         /\ probe' = r
    /\ probes' = probes + 1
    /\ probeResult' = "failed"
    /\ ConnectExcept
    /\ UNCHANGED <<args, max_pages, params, page, vacancies, requests,
                   lastData, received>>
    /\ UNCHANGED <<storeVars, vacVars, auxVars>>

\* one iteration of the loop whose request succeeds with body data
FetchPage ==
    /\ pc = "loop"
    /\ page < max_pages
    /\ \E data \in Responses(page) :
         LET sent == [params EXCEPT !["page"] = page]
             items == Get(data, "items", <<>>)
             total_pages == Get(data, "pages", 0)
         IN  /\ params' = sent
             /\ requests' = Append(requests, sent)
             /\ lastData' = data
             /\ received' = Append(received, items)
             /\ IF NoItems(items)
                THEN /\ Return(vacancies)
                     /\ UNCHANGED <<vacancies, page>>
                ELSE /\ vacancies' = Extend(vacancies, items)
                     /\ IF LastPage(page, total_pages)
                        THEN /\ Return(vacancies')
                             /\ UNCHANGED page
                        ELSE /\ page' = page + 1
                             /\ UNCHANGED <<pc, outcome, returned>>
    /\ UNCHANGED <<args, max_pages, probes, probeResult, probe>>
    /\ UNCHANGED <<storeVars, vacVars, auxVars>>

\* one iteration of the loop whose request raises RequestException
\* (network error, or an error status turned into HTTPError)
FetchPageFail ==
    /\ pc = "loop"
    /\ page < max_pages
    /\ LET sent == [params EXCEPT !["page"] = page]
       IN  /\ params' = sent
           /\ requests' = Append(requests, sent)
    /\ PagingExcept
    /\ UNCHANGED <<args, max_pages, page, vacancies, probes, probeResult,
                   probe, lastData, received>>
    /\ UNCHANGED <<storeVars, vacVars, auxVars>>

\* range(max_pages) is exhausted
LoopEnd ==
    /\ pc = "loop"
    /\ page >= max_pages
    /\ Return(vacancies)
    /\ UNCHANGED <<args, max_pages, params, page, vacancies, probes,
                   probeResult, probe, requests, lastData, received>>
    /\ UNCHANGED <<storeVars, vacVars, auxVars>>

SearchInit ==
    /\ pc = "idle"
    /\ args = NoArgs
    /\ max_pages = 0
    /\ params = EmptyDict
    /\ page = 0
    /\ vacancies = <<>>
    /\ outcome = "none"
    /\ returned = <<>>
    /\ probes = 0
    /\ probeResult = "none"
    /\ probe = NoProbe
    /\ requests = <<>>
    /\ lastData = EmptyDict
    /\ received = <<>>

-----------------------------------------------------------------------------
(* The session of HH: one self._session.get under the Retry of _setup_session *)

\* the default of the parameter max_retries of HH.__init__
DEFAULT_MAX_RETRIES == 3

\* the values of max_retries the clients of the model are created with
RetryTotals == 0..DEFAULT_MAX_RETRIES

status_forcelist == {429, 500, 502, 503, 504}

\* what one attempt meets: a response with some status, or an error of the
\* connection (refused, reset, timed out) and no response
AttemptResults ==
    { Responds(st) : st \in {200, 404, 501} \cup status_forcelist }
        \cup {Throws("ConnectionError")}

\* variant of ShouldRetry: every error status is retried
ShouldRetry_AnyErrorStatus(r) == r.exception # "none" \/ r.status >= 400

\* Retry(total=..., status_forcelist=...) asks for another attempt: total
\* counts the errors of the connection and the statuses of status_forcelist
\* of a GET alike
ShouldRetry(r) == r.exception # "none" \/ r.status \in status_forcelist

\* one attempt of the adapter for the request of self._session.get
Attempt ==
    /\ delivered = NoProbe
    /\ \E r \in AttemptResults :
         /\ attempts' = Append(attempts, r)
         /\ delivered' =
              IF ~ShouldRetry(r) THEN r
              ELSE IF Len(attempts) < retry_total THEN NoProbe
              \* Retry is exhausted: the exception session.get raises
              ELSE IF r.exception # "none" THEN Throws("ConnectionError")
              ELSE Throws("RetryError")
    /\ UNCHANGED retry_total
    /\ UNCHANGED <<searchVars, storeVars, vacVars, consoleVars, writerVars>>

TransportIdle ==
    /\ retry_total = DEFAULT_MAX_RETRIES
    /\ attempts = <<>>
    /\ delivered = NoProbe

-----------------------------------------------------------------------------
(* Python values handed to Vacancy (src/src/vacancy.py)                    *)
(*                                                                         *)
(* A value of unknown type is a record [t, i, s, d]: t names the type, i   *)
(* is the number of an int (of a float: the number in tenths; of a list:   *)
(* its length), s the text of a str, d the entries of a dict.              *)

PyVal(t, i, s, d) == [t |-> t, i |-> i, s |-> s, d |-> d]
PyNone == PyVal("None", 0, <<>>, EmptyDict)
PyInt(n) == PyVal("int", n, <<>>, EmptyDict)
PyFloat(tenths) == PyVal("float", tenths, <<>>, EmptyDict)
Inf == PyVal("inf", 1, <<>>, EmptyDict)        \* float("inf")
NaN == PyVal("nan", 0, <<>>, EmptyDict)        \* float("nan")
PyStr(s) == PyVal("str", 0, s, EmptyDict)
PyList(n) == PyVal("list", n, <<>>, EmptyDict)   \* a list of n elements
PyDict(d) == PyVal("dict", 0, <<>>, d)

\* bool(v)
PyBool(v) ==
    CASE v.t = "None" -> FALSE
      [] v.t \in {"int", "float", "list"} -> v.i # 0
      [] v.t = "str" -> v.s # <<>>
      [] v.t = "dict" -> DOMAIN v.d # {}
      [] OTHER -> TRUE

\* "a or b"
Or(a, b) == IF PyBool(a) THEN a ELSE b

Digits == {"0", "1", "2", "3", "4", "5", "6", "7", "8", "9"}
DigitVal(c) ==
    CASE c = "0" -> 0 [] c = "1" -> 1 [] c = "2" -> 2 [] c = "3" -> 3
      [] c = "4" -> 4 [] c = "5" -> 5 [] c = "6" -> 6 [] c = "7" -> 7
      [] c = "8" -> 8 [] c = "9" -> 9

RECURSIVE DigitsValue(_)
DigitsValue(ds) ==
    IF ds = <<>> THEN 0
    ELSE 10 * DigitsValue(SubSeq(ds, 1, Len(ds) - 1)) + DigitVal(ds[Len(ds)])

AllDigits(ds) == \A k \in 1..Len(ds) : ds[k] \in Digits

\* float(text) for a str: surrounding whitespace and a sign are accepted, then
\* "inf", "nan" or digits with an optional fraction (exponents, underscores
\* and upper-case spellings do not occur in the texts of the model).
\* kind is "num", "inf", "nan" or "bad" (ValueError); whole is the part
\* before the point.
ParseFloat(text) ==
    LET t == strip(text)
        signed == t # <<>> /\ t[1] \in {"-", "+"}
        sign == IF signed /\ t[1] = "-" THEN -1 ELSE 1
        body == IF signed THEN Tail(t) ELSE t
        dots == { k \in 1..Len(body) : body[k] = "." }
        whole == IF dots = {} THEN body
                 ELSE SubSeq(body, 1, (CHOOSE k \in dots : TRUE) - 1)
        frac == IF dots = {} THEN <<>>
                ELSE SubSeq(body, (CHOOSE k \in dots : TRUE) + 1, Len(body))
    IN  IF body = <<"i", "n", "f">> THEN [kind |-> "inf", sign |-> sign, whole |-> 0]
        ELSE IF body = <<"n", "a", "n">> THEN [kind |-> "nan", sign |-> sign, whole |-> 0]
        ELSE IF /\ Cardinality(dots) <= 1
                /\ AllDigits(whole) /\ AllDigits(frac)
                /\ Len(whole) + Len(frac) > 0
        THEN [kind |-> "num", sign |-> sign, whole |-> DigitsValue(whole)]
        ELSE [kind |-> "bad", sign |-> sign, whole |-> 0]

\* int(x) of a float given in tenths: truncation towards zero
Trunc(tenths) == IF tenths >= 0 THEN tenths \div 10 ELSE -((-tenths) \div 10)

-----------------------------------------------------------------------------
(* Vacancy (src/src/vacancy.py) *)

NoTitle == <<"N", "o", "T">>          \* "Название не указано"
NoDescription == <<"N", "o", "D">>    \* "Описание не указано"
NoRequirements == <<"N", "o", "R">>   \* "Требования не указаны"
RUB == <<"R", "U", "B">>

VacancyKeys ==
    {"title", "url", "salary_from", "salary_to", "currency", "description",
     "requirements"}

\* Vacancy._validate_title; the result is the text of a str
_validate_title(title) ==
    IF ~PyBool(title) \/ title.t # "str" THEN NoTitle ELSE strip(title.s)

\* Vacancy._validate_url; the result is the text of a str
_validate_url(url) ==
    IF ~PyBool(url) \/ url.t # "str" THEN <<>> ELSE strip(url.s)

\* int(float(salary)) raises OverflowError, which _validate_salary lets pass
SalaryOverflows(salary) ==
    \/ salary.t = "inf"
    \/ salary.t = "str" /\ salary.s # <<>> /\ ParseFloat(salary.s).kind = "inf"

\* Vacancy._validate_salary when it returns; the result is an int
_validate_salary(salary) ==
    IF salary.t = "None" \/ (salary.t = "str" /\ salary.s = <<>>) THEN 0
    ELSE CASE salary.t = "int" -> salary.i
           [] salary.t = "float" -> Trunc(salary.i)
           [] salary.t = "str" ->
                LET f == ParseFloat(salary.s)
                IN  IF f.kind = "num" THEN f.sign * f.whole ELSE 0
           [] OTHER -> 0

\* Vacancy.__init__ applied to the keyword arguments kw: title and url are
\* required, the other parameters have defaults, unknown names go to **kwargs
CanConstruct(kw) == {"title", "url"} \subseteq DOMAIN kw

\* the exception Vacancy(**kw) raises, "none" when it returns
InitError(kw) ==
    IF ~CanConstruct(kw) THEN "TypeError"
    ELSE IF \/ SalaryOverflows(Get(kw, "salary_from", PyNone))
            \/ SalaryOverflows(Get(kw, "salary_to", PyNone))
    THEN "OverflowError"
    ELSE "none"

\* the object Vacancy(**kw) when __init__ returns: title and url are texts,
\* the salaries are ints, the other three fields keep the value passed
Vacancy(kw) ==
    [title |-> _validate_title(kw["title"]),
     url |-> _validate_url(kw["url"]),
     salary_from |-> _validate_salary(Get(kw, "salary_from", PyNone)),
     salary_to |-> _validate_salary(Get(kw, "salary_to", PyNone)),
     currency |-> Or(Get(kw, "currency", PyNone), PyStr(RUB)),
     description |-> Or(Get(kw, "description", PyStr(<<>>)), PyStr(NoDescription)),
     requirements |-> Or(Get(kw, "requirements", PyStr(<<>>)), PyStr(NoRequirements))]

\* twice Vacancy.avg_salary (the mean may end in .5)
avg_salary2(v) ==
    IF v.salary_from > 0 /\ v.salary_to > 0 THEN v.salary_from + v.salary_to
    ELSE IF v.salary_from > 0 THEN 2 * v.salary_from
    ELSE IF v.salary_to > 0 THEN 2 * v.salary_to
    ELSE 0

\* variant of lt: the lower bounds are compared
lt_ByLowerBound(a, b) == a.salary_from < b.salary_from

\* Vacancy.__lt__ for two vacancies
lt(a, b) == avg_salary2(a) < avg_salary2(b)

\* Vacancy.from_hh_dict: the exception raised, "none" when it returns.
\* A salary or snippet entry that is true and no dict has no method get.
FromHHError(data) ==
    IF data.t # "dict" THEN "ValueError"
    ELSE
    LET salary == Or(Get(data.d, "salary", PyNone), PyDict(EmptyDict))
        snippet == Or(Get(data.d, "snippet", PyNone), PyDict(EmptyDict))
    IN  IF salary.t # "dict" \/ snippet.t # "dict" THEN "AttributeError"
        ELSE IF \/ SalaryOverflows(Get(salary.d, "from", PyNone))
                \/ SalaryOverflows(Get(salary.d, "to", PyNone))
        THEN "OverflowError"
        ELSE "none"

\* Vacancy.from_hh_dict when it returns
from_hh_dict(data) ==
    LET salary == Or(Get(data.d, "salary", PyNone), PyDict(EmptyDict))
        snippet == Or(Get(data.d, "snippet", PyNone), PyDict(EmptyDict))
    IN  Vacancy([title |-> Get(data.d, "name", PyStr(<<>>)),
                 url |-> Get(data.d, "alternate_url", PyStr(<<>>)),
                 salary_from |-> Get(salary.d, "from", PyNone),
                 salary_to |-> Get(salary.d, "to", PyNone),
                 currency |-> Get(salary.d, "currency", PyNone),
                 description |-> Get(snippet.d, "responsibility", PyStr(<<>>)),
                 requirements |-> Get(snippet.d, "requirement", PyStr(<<>>))])

\* Vacancy.to_dict: the dict of JSON values
to_dict(v) ==
    [title |-> PyStr(v.title), url |-> PyStr(v.url),
     salary_from |-> PyInt(v.salary_from), salary_to |-> PyInt(v.salary_to),
     currency |-> v.currency, description |-> v.description,
     requirements |-> v.requirements]

\* str.lower() on the letters of the model
LowerOf ==
    [c \in {"A", "D", "P", "Q"} |->
        CASE c = "A" -> "a" [] c = "D" -> "d" [] c = "P" -> "p" [] c = "Q" -> "q"]

\* variant of lower: the letters are left as they are
lower_Unchanged(s) == s

lower(s) == [i \in 1..Len(s) |-> IF s[i] \in DOMAIN LowerOf THEN LowerOf[s[i]] ELSE s[i]]

\* "needle in hay" for two str
Contains(hay, needle) ==
    \E i \in 0..(Len(hay) - Len(needle)) : SubSeq(hay, i + 1, i + Len(needle)) = needle

\* the vacancies the model hands to the store
PythonDev ==
    Vacancy([title |-> PyStr(<<"P", "y", " ", "D">>), url |-> PyStr(<<"u", "1">>),
             salary_from |-> PyInt(100000), salary_to |-> PyInt(150000),
             currency |-> PyStr(RUB), description |-> PyStr(<<"d", "e", "v">>),
             requirements |-> PyStr(<<"2", "y">>)])
DataAnalyst ==
    Vacancy([title |-> PyStr(<<"D", "A">>), url |-> PyStr(<<"u", "2">>),
             salary_from |-> PyInt(80000), salary_to |-> PyInt(100000),
             currency |-> PyStr(RUB), description |-> PyStr(<<"d", "a", "t", "a">>),
             requirements |-> PyStr(<<"s", "q", "l">>)])
Intern ==
    Vacancy([title |-> PyStr(<<"Q", "A">>), url |-> PyStr(<<>>)])

\* the vacancies of the lists given to add_vacancies
Vacancies == {PythonDev, Intern}

-----------------------------------------------------------------------------
(* Calls on Vacancy *)

\* one optional entry of a dict: absent, or present with a value of vals
Entry(key, vals) == {EmptyDict} \cup { key :> v : v \in vals }

USD == <<"U", "S", "D">>

\* values passed as a salary: None, ints, floats, texts, a list
SalaryInputs ==
    {PyNone, PyInt(0), PyInt(100000), PyInt(-5),
     PyFloat(1500000), PyFloat(-15), Inf, NaN,
     PyStr(<<>>), PyStr(<<"1", "0", "0">>), PyStr(<<"-", "1", "0", "0">>),
     PyStr(<<"1", ".", "5">>), PyStr(<<" ", "4", "2", " ">>),
     PyStr(<<"a", "b", "c">>), PyStr(<<"i", "n", "f">>), PyList(1)}

\* the keyword arguments of the calls Vacancy(**kw) of the model
ConstructArgs ==
    { t @@ u @@ f @@ o @@ c @@ d @@ r @@ x :
        t \in Entry("title", {PyNone, PyStr(<<>>), PyStr(<<" ", " ">>),
                              PyStr(<<" ", "Q", "A">>), PyInt(5)}),
        u \in Entry("url", {PyNone, PyStr(<<"u", "1", " ">>)}),
        f \in Entry("salary_from", SalaryInputs),
        o \in Entry("salary_to", {PyInt(150000), PyStr(<<"-", "1", "0", "0">>)}),
        c \in Entry("currency", {PyNone, PyStr(USD)}),
        d \in Entry("description", {PyStr(<<>>)}),
        r \in Entry("requirements", {PyStr(<<"s", "q", "l">>)}),
        x \in Entry("city", {PyStr(<<"m">>)}) }

\* the "salary" and "snippet" entries of a raw item
RawSalaries ==
    {PyNone, PyStr(<<"a", "b", "c">>), PyInt(5), PyInt(0)}
        \cup { PyDict(f @@ o @@ c) :
                 f \in Entry("from", {PyNone, PyInt(100000), PyInt(-3)}),
                 o \in Entry("to", {PyInt(150000)}),
                 c \in Entry("currency", {PyNone, PyStr(USD)}) }
RawSnippets ==
    {PyNone, PyStr(<<"x">>), PyList(1), PyList(0)}
        \cup { PyDict(d @@ r) :
                 d \in Entry("responsibility", {PyNone, PyStr(<<" ", " ">>),
                                                PyStr(<<"d", "e", "v">>)}),
                 r \in Entry("requirement", {PyStr(<<>>)}) }

\* the raw items handed to from_hh_dict: dicts and values of other types
RawItems ==
    {PyNone, PyStr(<<"x">>), PyList(0), PyInt(5)}
        \cup { PyDict(n @@ u @@ sa @@ sn) :
                 n \in Entry("name", {PyNone, PyStr(<<>>), PyStr(<<" ", " ">>),
                                     PyStr(<<"Q", "A">>)}),
                 u \in Entry("alternate_url", {PyStr(<<" ">>), PyStr(<<"u", "1">>)}),
                 sa \in Entry("salary", RawSalaries),
                 sn \in Entry("snippet", RawSnippets) }

\* the vacancies compared: every sign of the two bounds occurs
Comparands ==
    { Vacancy([title |-> PyStr(<<t>>), url |-> PyStr(<<>>),
               salary_from |-> PyInt(f), salary_to |-> PyInt(o)]) :
        t \in {"A", "D"}, f \in {-5, 0, 100, 200}, o \in {-5, 0, 100, 300} }

NoVacOp == [name |-> "none", arg |-> <<>>, error |-> "none", result |-> <<>>]
NoVacArg == [call |-> "none", arg |-> <<>>]

\* the call on Vacancy to make is one of the five, on inputs of the model
VacancyCall(c) ==
    \/ \E kw \in ConstructArgs : c = [call |-> "init", arg |-> <<kw>>]
    \/ \E data \in RawItems : c = [call |-> "from_hh_dict", arg |-> <<data>>]
    \/ \E data \in RawItems : c = [call |-> "round_trip", arg |-> <<data>>]
    \/ \E v \in Comparands : c = [call |-> "avg_salary", arg |-> <<v>>]
    \/ \E a, b \in Comparands : c = [call |-> "lt", arg |-> <<a, b>>]

\* Vacancy(**kw)
construct ==
    /\ vacArg.call = "init"
    /\ LET kw == vacArg.arg[1]
       IN  vacOp' = [name |-> "init", arg |-> <<kw>>, error |-> InitError(kw),
                     result |-> IF InitError(kw) = "none"
                                THEN <<Vacancy(kw)>> ELSE <<>>]
    /\ UNCHANGED <<searchVars, storeVars, vacArg, auxVars>>

\* Vacancy.from_hh_dict(data)
map_raw_item ==
    /\ vacArg.call = "from_hh_dict"
    /\ LET data == vacArg.arg[1]
       IN  vacOp' = [name |-> "from_hh_dict", arg |-> <<data>>,
                     error |-> FromHHError(data),
                     result |-> IF FromHHError(data) = "none"
                                THEN <<from_hh_dict(data)>> ELSE <<>>]
    /\ UNCHANGED <<searchVars, storeVars, vacArg, auxVars>>

\* v = Vacancy.from_hh_dict(data), then Vacancy(**item) for item = v.to_dict()
\* as get_vacancies does with the items of the file; the result is the pair
\* of v and the rebuilt vacancy. json.dump and json.load return the strs, ints
\* and None of item as they are.
round_trip ==
    /\ vacArg.call = "round_trip"
    /\ LET data == vacArg.arg[1]
           error == IF FromHHError(data) # "none" THEN FromHHError(data)
                    ELSE InitError(to_dict(from_hh_dict(data)))
       IN  vacOp' = [name |-> "round_trip", arg |-> <<data>>, error |-> error,
                     result |-> IF error = "none"
                                THEN <<from_hh_dict(data),
                                       Vacancy(to_dict(from_hh_dict(data)))>>
                                ELSE <<>>]
    /\ UNCHANGED <<searchVars, storeVars, vacArg, auxVars>>

\* v.avg_salary; the result is twice the value
avg_salary ==
    /\ vacArg.call = "avg_salary"
    /\ LET v == vacArg.arg[1]
       IN  vacOp' = [name |-> "avg_salary", arg |-> <<v>>, error |-> "none",
                     result |-> <<avg_salary2(v)>>]
    /\ UNCHANGED <<searchVars, storeVars, vacArg, auxVars>>

\* a < b
compare ==
    /\ vacArg.call = "lt"
    /\ LET a == vacArg.arg[1]
           b == vacArg.arg[2]
       IN  vacOp' = [name |-> "lt", arg |-> <<a, b>>, error |-> "none",
                     result |-> <<lt(a, b)>>]
    /\ UNCHANGED <<searchVars, storeVars, vacArg, auxVars>>

VacIdle == vacArg = NoVacArg /\ vacOp = NoVacOp

-----------------------------------------------------------------------------
(* JSONStorage *)

\* lists given to add_vacancies hold at most MaxBatch vacancies
MaxBatch == 2
\* a backing file found at start holds at most MaxStored entries
MaxStored == 2

SeqsUpTo(S, n) == UNION { [1..k -> S] : k \in 0..n }

Missing == [kind |-> "missing", data |-> <<>>]   \* no file at the path
Blank == [kind |-> "empty", data |-> <<>>]       \* a file of whitespace only
Corrupt == [kind |-> "corrupt", data |-> <<>>]   \* a file json.loads rejects
Json(data) == [kind |-> "json", data |-> data]   \* a file holding a JSON list
\* a file whose bytes are no UTF-8 text, such as b"\xff\xfe[]"
Undecodable == [kind |-> "undecodable", data |-> <<>>]

Batches == SeqsUpTo(Vacancies, MaxBatch)
StoredLists == SeqsUpTo({to_dict(PythonDev), to_dict(DataAnalyst)}, MaxStored)

\* dictionaries of a file written by another version of the program:
\* with a key the class does not know, with the required keys only, and
\* without one of the required keys
ExtraKeyDict == to_dict(PythonDev) @@ ("city" :> PyStr(<<"m">>))
RequiredOnlyDict == [title |-> PyStr(<<"Q", "A">>), url |-> PyStr(<<"u", "3">>)]
NoTitleDict == [k \in VacancyKeys \ {"title"} |-> to_dict(DataAnalyst)[k]]
NoUrlDict == [k \in VacancyKeys \ {"url"} |-> to_dict(DataAnalyst)[k]]
ForeignLists ==
    {<<ExtraKeyDict>>, <<RequiredOnlyDict>>, <<NoTitleDict>>, <<NoUrlDict>>}

InitialFiles ==
    {Missing, Blank, Corrupt, Undecodable}
        \cup { Json(d) : d \in StoredLists \cup ForeignLists }

\* how the write of _save_to_file ends: it completes, open() fails, or
\* json.dump fails after open() has truncated the file, before or after the
\* first characters were written
WriteOutcomes == {"written", "open fails", "truncated", "partial"}

Criteria ==
    { k @@ m @@ u :
        k \in {EmptyDict} \cup { "keyword" :> w : w \in {<<"p", "y">>, <<"D", "A">>} },
        m \in {EmptyDict} \cup { "min_salary" :> n : n \in {120000} },
        u \in {EmptyDict, "city" :> <<"m">>} }

\* the criteria given to delete_vacancies, which reads none of them
DeleteCriteria == {EmptyDict, "keyword" :> <<"p", "y">>}

NoOp == [name |-> "none", arg |-> <<>>, before |-> Missing,
         error |-> "none", result |-> <<>>]

\* JSONStorage._load_from_file when it returns
_load_from_file == IF file.kind = "json" THEN file.data ELSE <<>>

\* JSONStorage._load_from_file: the exception it lets pass, "none" when it
\* returns. Only FileNotFoundError and json.JSONDecodeError are caught; f.read()
\* raises UnicodeDecodeError on bytes that are no UTF-8 text.
LoadError == IF file.kind = "undecodable" THEN "UnicodeDecodeError" ELSE "none"

\* JSONStorage._save_to_file: the file after a write that ends as ending
\* says. open(filename, "w") truncates the file before json.dump writes.
_save_to_file(data, ending) ==
    CASE ending = "written" -> Json(data)
      [] ending = "open fails" -> file
      [] ending = "truncated" -> Blank
      [] ending = "partial" -> Corrupt

\* JSONStorage._save_to_file: the exception it lets pass
SaveError(ending) == IF ending = "written" THEN "none" ELSE "OSError"

\* variant of json_dump: the call returns the text, as json.dumps does
json_dump_Dumps(item) == [raises |-> "none", value |-> item]

\* json.dump(item, sort_keys=True) as called in add_vacancies: the required
\* argument fp is not passed, so the call raises TypeError and returns nothing
json_dump(item) == [raises |-> "TypeError", value |-> item]

Record(name, arg, error, result) ==
    /\ storeOp' = [name |-> name, arg |-> arg, before |-> file,
                   error |-> error, result |-> result]
    /\ prevStoreOp' = storeOp

\* lines 62 to 65 of add_vacancies on the list existing read from the file:
\* the exception raised, and the list handed to _save_to_file
Extended(existing, vacs) ==
    LET new_data == [i \in 1..Len(vacs) |-> to_dict(vacs[i])]
        \* the comprehensions of lines 62 and 64 call json_dump once per item
        dumped == { existing[i] : i \in 1..Len(existing) }
                    \cup { new_data[i] : i \in 1..Len(new_data) }
        failed == { item \in dumped : json_dump(item).raises # "none" }
        existing_set == { json_dump(existing[i]).value : i \in 1..Len(existing) }
        IsNew(item) == json_dump(item).value \notin existing_set
        unique_new_data == SelectSeq(new_data, IsNew)
    IN  IF failed # {}
        THEN [error |-> "TypeError", data |-> existing]
        ELSE \* no item was dumped: existing and new_data are both empty
             [error |-> "none", data |-> existing \o unique_new_data]

\* JSONStorage.add_vacancies
add_vacancies(vacs) ==
    LET extended == Extended(_load_from_file, vacs)
    IN  /\ IF LoadError # "none"
           THEN /\ UNCHANGED file
                /\ Record("add", vacs, LoadError, <<>>)
           ELSE IF extended.error # "none"
           THEN /\ UNCHANGED file
                /\ Record("add", vacs, extended.error, <<>>)
           ELSE \E ending \in WriteOutcomes :
                    /\ file' = _save_to_file(extended.data, ending)
                    /\ Record("add", vacs, SaveError(ending), <<>>)
        /\ UNCHANGED <<searchVars, vacVars, auxVars>>

\* JSONStorage.get_vacancies(**criteria): the exception raised and the list
\* returned
Queried(criteria) ==
    LET data == _load_from_file
        all == [i \in 1..Len(data) |-> Vacancy(data[i])]
        \* the descriptions in the files of the model are str
        byKeyword(v) ==
            LET keyword == lower(criteria["keyword"])
            IN  Contains(lower(v.title), keyword) \/ Contains(lower(v.description.s), keyword)
        bySalary(v) == avg_salary2(v) >= 2 * criteria["min_salary"]
        f1 == IF "keyword" \in DOMAIN criteria THEN SelectSeq(all, byKeyword) ELSE all
        f2 == IF "min_salary" \in DOMAIN criteria THEN SelectSeq(f1, bySalary) ELSE f1
        bad == { i \in 1..Len(data) : InitError(data[i]) # "none" }
    IN  IF LoadError # "none"
        THEN [error |-> LoadError, result |-> <<>>]
        ELSE IF bad # {}
        THEN [error |-> InitError(data[CHOOSE i \in bad : \A j \in bad : i <= j]),
              result |-> <<>>]
        ELSE [error |-> "none", result |-> f2]

\* JSONStorage.get_vacancies
get_vacancies(criteria) ==
    /\ Record("get", criteria, Queried(criteria).error, Queried(criteria).result)
    /\ UNCHANGED file
    /\ UNCHANGED <<searchVars, vacVars, auxVars>>

\* variant of delete_vacancies: the entries are removed, whatever the criteria
delete_vacancies_RemovesAll(criteria) ==
    /\ Record("delete", criteria, "none", <<>>)
    /\ file' = Json(<<>>)
    /\ UNCHANGED <<searchVars, vacVars, auxVars>>

\* JSONStorage.delete_vacancies
delete_vacancies(criteria) ==
    /\ Record("delete", criteria, "none", <<>>)
    /\ UNCHANGED file
    /\ UNCHANGED <<searchVars, vacVars, auxVars>>

\* variant of clear_storage: the collection read from the file is written back
clear_storage_Rewrite ==
    /\ LoadError = "none"
    /\ file' = Json(_load_from_file)
    /\ Record("clear", <<>>, "none", <<>>)
    /\ UNCHANGED <<searchVars, vacVars, auxVars>>

\* JSONStorage.clear_storage
clear_storage ==
    \E ending \in WriteOutcomes :
        /\ file' = _save_to_file(<<>>, ending)
        /\ Record("clear", <<>>, SaveError(ending), <<>>)
        /\ UNCHANGED <<searchVars, vacVars, auxVars>>

StoreIdle ==
    /\ file = Missing
    /\ storeOp = NoOp
    /\ prevStoreOp = NoOp

StoreInit ==
    /\ file \in InitialFiles
    /\ storeOp = NoOp
    /\ prevStoreOp = NoOp

-----------------------------------------------------------------------------
(* The console: UserInterface.run and its handlers, user_interaction of main.py *)

\* how self.api.load_vacancies ends for the console: it raises, or returns
\* the raw items
SearchRaised(exc) == [raises |-> exc, items |-> <<>>]
SearchReturned(items) == [raises |-> "none", items |-> items]

\* the keyword of the console is never blank (_get_search_keyword), so
\* load_vacancies raises no ValueError there
SearchEndings ==
    {SearchRaised("ConnectionError"), SearchRaised("ParserError"),
     SearchReturned(<<>>),
     SearchReturned(<<PyDict(("name" :> PyStr(<<"Q", "A">>))
                              @@ ("alternate_url" :> PyStr(<<"u", "1">>)))>>),
     SearchReturned(<<PyStr(<<"x">>)>>)}

\* in main.py the keyword is the text typed, which may be blank
MainEndings == SearchEndings \cup {SearchRaised("ValueError")}

\* sorted(vacancies, reverse=True): a stable sort by __lt__, greatest first
RECURSIVE InsertDesc(_, _)
InsertDesc(v, sorted) ==
    IF sorted = <<>> THEN <<v>>
    ELSE IF lt(Head(sorted), v) THEN <<v>> \o sorted
    ELSE <<Head(sorted)>> \o InsertDesc(v, Tail(sorted))

RECURSIVE SortedDesc(_)
SortedDesc(vacs) ==
    IF vacs = <<>> THEN <<>>
    ELSE InsertDesc(vacs[Len(vacs)], SortedDesc(SubSeq(vacs, 1, Len(vacs) - 1)))

\* the slice s[:n]
Slice(s, n) ==
    IF n >= 0 THEN SubSeq(s, 1, Min(n, Len(s)))
    ELSE SubSeq(s, 1, IF Len(s) + n > 0 THEN Len(s) + n ELSE 0)

NoEvent == [choice |-> "none", raised |-> "none", printed |-> "nothing",
            listed |-> <<>>]

\* one turn of "while True" ends: the handler returned, or an exception left
\* it and run()
Turn(choice, raised, printed, listed) ==
    /\ ui = "menu"
    /\ uiEvent' = [choice |-> choice, raised |-> raised,
                   printed |-> IF raised = "none" THEN printed ELSE "traceback",
                   listed |-> IF raised = "none" THEN listed ELSE <<>>]
    /\ ui' = IF raised = "none" THEN "menu" ELSE "crashed"
    /\ UNCHANGED <<uiSession, mainPc, mainSession, mainOutcome>>
    /\ UNCHANGED <<searchVars, storeOp, prevStoreOp, vacVars, transportVars, writerVars>>

\* choice "1": every exception of the body is caught by "except Exception"
_search_new_vacancies ==
    \E search \in SearchEndings :
        LET raw == search.items
            bad == { i \in 1..Len(raw) : FromHHError(raw[i]) # "none" }
            vacs == [i \in 1..Len(raw) |-> from_hh_dict(raw[i])]
            extended == Extended(_load_from_file, vacs)
        IN  IF search.raises # "none" \/ bad # {}
            THEN /\ Turn("1", "none", "error", <<>>)
                 /\ UNCHANGED file
            ELSE IF vacs = <<>>
            THEN /\ Turn("1", "none", "not found", <<>>)
                 /\ UNCHANGED file
            ELSE IF LoadError # "none" \/ extended.error # "none"
            THEN /\ Turn("1", "none", "error", <<>>)
                 /\ UNCHANGED file
            ELSE \E ending \in WriteOutcomes :
                    /\ file' = _save_to_file(extended.data, ending)
                    /\ IF SaveError(ending) # "none"
                       THEN Turn("1", "none", "error", <<>>)
                       ELSE Turn("1", "none", "saved", Slice(vacs, 5))

\* choice "2": no try statement
_show_saved_vacancies ==
    \E q \in {Queried(EmptyDict)} :
        /\ Turn("2", q.error, IF q.result # <<>> THEN "list" ELSE "none saved",
                q.result)
        /\ UNCHANGED file

\* choice "3": only ValueError is caught, which UnicodeDecodeError is
_show_top_vacancies ==
    \* typed: text that is no number (None), or a number
    \E typed \in {None, Some(1), Some(0), Some(-1)}, q \in {Queried(EmptyDict)} :
            /\ IF typed = None \/ q.error \in {"ValueError", "UnicodeDecodeError"}
               THEN Turn("3", "none", "not a number", <<>>)
               ELSE Turn("3", q.error,
                         IF q.result # <<>> THEN "list" ELSE "none saved",
                         Slice(SortedDesc(q.result), Val(typed)))
            /\ UNCHANGED file

\* choice "4": no try statement
_search_by_keyword ==
    \E keyword \in {<<>>, <<"p", "y">>} :
        \E q \in {Queried("keyword" :> keyword)} :
            /\ IF keyword = <<>>
               THEN Turn("4", "none", "nothing", <<>>)
               ELSE Turn("4", q.error,
                         IF q.result # <<>> THEN "list" ELSE "not found",
                         q.result)
            /\ UNCHANGED file

\* choice "5": no try statement
_clear_vacancies ==
    \E confirm \in {"y", "n"} :
        IF confirm = "y"
        THEN \E ending \in WriteOutcomes :
                /\ file' = _save_to_file(<<>>, ending)
                /\ Turn("5", SaveError(ending), "cleared", <<>>)
        ELSE /\ Turn("5", "none", "nothing", <<>>)
             /\ UNCHANGED file

\* another choice: "Неверный выбор!"
unknown_choice ==
    /\ Turn("9", "none", "invalid choice", <<>>)
    /\ UNCHANGED file

\* choice "0": break; nothing else follows the loop
exit_menu ==
    /\ ui = "menu"
    /\ ui' = "exited"
    /\ uiEvent' = [choice |-> "0", raised |-> "none", printed |-> "bye",
                   listed |-> <<>>]
    /\ UNCHANGED <<uiSession, mainPc, mainSession, mainOutcome>>
    /\ UNCHANGED <<searchVars, storeVars, vacVars, transportVars, writerVars>>

NoMainOutcome == [raises |-> "none", items |-> <<>>, session |-> "none"]

\* main.py line 20: HH(timeout=15) creates the session, __enter__ returns self
main_enter ==
    /\ mainPc = "start"
    /\ mainPc' = "with"
    /\ mainSession' = "open"
    /\ UNCHANGED <<ui, uiSession, uiEvent, mainOutcome>>
    /\ UNCHANGED <<searchVars, storeVars, vacVars, transportVars, writerVars>>

\* main.py lines 21-30: the search in the body of the with statement
main_search ==
    /\ mainPc = "with"
    /\ \E search \in MainEndings :
         mainOutcome' = [raises |-> search.raises, items |-> search.items,
                         session |-> mainSession]
    /\ mainPc' = "leaving"
    /\ UNCHANGED <<ui, uiSession, uiEvent, mainSession>>
    /\ UNCHANGED <<searchVars, storeVars, vacVars, transportVars, writerVars>>

\* HH.__exit__, run when the body returns and when it raises; the exception
\* is then caught at line 32 or 34
main_exit ==
    /\ mainPc = "leaving"
    /\ mainSession' = IF mainSession # "none" THEN "closed" ELSE mainSession
    /\ mainPc' = "done"
    /\ UNCHANGED <<ui, uiSession, uiEvent, mainOutcome>>
    /\ UNCHANGED <<searchVars, storeVars, vacVars, transportVars, writerVars>>

\* no console runs
ConsoleIdle ==
    /\ ui = "exited"
    /\ uiSession = "closed"
    /\ uiEvent = NoEvent
    /\ mainPc = "done"
    /\ mainSession = "none"
    /\ mainOutcome = NoMainOutcome

-----------------------------------------------------------------------------
(* Two processes that call add_vacancies on the same file *)

Writers == {1, 2}

\* line 61 of add_vacancies: existing = self._load_from_file()
WriterLoad(w) ==
    /\ wpc[w] = "start"
    /\ IF LoadError # "none"
       THEN /\ wpc' = [wpc EXCEPT ![w] = "done"]
            /\ werror' = [werror EXCEPT ![w] = LoadError]
            /\ UNCHANGED wexisting
       ELSE /\ wpc' = [wpc EXCEPT ![w] = "loaded"]
            /\ wexisting' = [wexisting EXCEPT ![w] = _load_from_file]
            /\ UNCHANGED werror
    /\ wsteps' = Append(wsteps, <<w, "load">>)
    /\ UNCHANGED <<file, wvacs, wstart>>
    /\ UNCHANGED <<searchVars, storeOp, prevStoreOp, vacVars, transportVars, consoleVars>>

\* lines 62 to 66 of add_vacancies, on the list loaded at line 61
WriterRewrite(w) ==
    /\ wpc[w] = "loaded"
    /\ wpc' = [wpc EXCEPT ![w] = "done"]
    /\ \E extended \in {Extended(wexisting[w], wvacs[w])} :
         IF extended.error # "none"
         THEN /\ werror' = [werror EXCEPT ![w] = extended.error]
              /\ UNCHANGED file
         ELSE \E ending \in WriteOutcomes :
                 /\ file' = _save_to_file(extended.data, ending)
                 /\ werror' = [werror EXCEPT ![w] = SaveError(ending)]
    /\ wsteps' = Append(wsteps, <<w, "rewrite">>)
    /\ UNCHANGED <<wvacs, wexisting, wstart>>
    /\ UNCHANGED <<searchVars, storeOp, prevStoreOp, vacVars, transportVars, consoleVars>>

\* no writer runs
WritersIdle ==
    /\ wstart = Missing
    /\ wpc = [w \in Writers |-> "done"]
    /\ wvacs = [w \in Writers |-> <<>>]
    /\ wexisting = [w \in Writers |-> <<>>]
    /\ werror = [w \in Writers |-> "none"]
    /\ wsteps = <<>>

AuxIdle == TransportIdle /\ ConsoleIdle /\ WritersIdle

-----------------------------------------------------------------------------
(* The specifications *)

Init == SearchInit /\ StoreIdle /\ VacIdle /\ AuxIdle

Next ==
    \/ \E a \in CallArgs : load_vacancies(a)
    \/ ConnectOk
    \/ ConnectFail
    \/ FetchPage
    \/ FetchPageFail
    \/ LoopEnd

Spec == Init /\ [][Next]_vars

\* the store alone
InitStore == SearchInit /\ StoreInit /\ VacIdle /\ AuxIdle

NextStore ==
    \/ \E vacs \in Batches : add_vacancies(vacs)
    \/ \E criteria \in Criteria : get_vacancies(criteria)
    \/ \E criteria \in DeleteCriteria : delete_vacancies(criteria)
    \/ clear_storage

SpecStore == InitStore /\ [][NextStore]_vars

\* the store on a backing file that is missing or holds no entry at the start
FreshFiles == {Missing, Blank, Json(<<>>)}

InitFresh ==
    /\ SearchInit
    /\ VacIdle
    /\ AuxIdle
    /\ file \in FreshFiles
    /\ storeOp = NoOp
    /\ prevStoreOp = NoOp

SpecFresh == InitFresh /\ [][NextStore]_vars

\* Vacancy alone: one call on inputs drawn at the start
InitVacancy ==
    /\ SearchInit
    /\ StoreIdle
    /\ VacancyCall(vacArg)
    /\ vacOp = NoVacOp
    /\ AuxIdle

NextVacancy ==
    \/ construct
    \/ map_raw_item
    \/ round_trip
    \/ avg_salary
    \/ compare

SpecVacancy == InitVacancy /\ [][NextVacancy]_vars

\* one request of a session, for each value of max_retries
InitTransport ==
    /\ SearchInit
    /\ StoreIdle
    /\ VacIdle
    /\ retry_total \in RetryTotals
    /\ attempts = <<>>
    /\ delivered = NoProbe
    /\ ConsoleIdle
    /\ WritersIdle

NextTransport == Attempt

SpecTransport == InitTransport /\ [][NextTransport]_vars

\* the console on each file of the model
InitConsole ==
    /\ SearchInit
    /\ file \in InitialFiles
    /\ storeOp = NoOp
    /\ prevStoreOp = NoOp
    /\ VacIdle
    /\ TransportIdle
    \* UserInterface.__init__ has run: self.api = HH() holds an open session
    /\ ui = "menu"
    /\ uiSession = "open"
    /\ uiEvent = NoEvent
    /\ mainPc = "start"
    /\ mainSession = "none"
    /\ mainOutcome = NoMainOutcome
    /\ WritersIdle

NextConsole ==
    \/ _search_new_vacancies
    \/ _show_saved_vacancies
    \/ _show_top_vacancies
    \/ _search_by_keyword
    \/ _clear_vacancies
    \/ unknown_choice
    \/ exit_menu
    \/ main_enter
    \/ main_search
    \/ main_exit

SpecConsole == InitConsole /\ [][NextConsole]_vars

\* two JSONStorage objects on one file, each about to call add_vacancies
InitWriters ==
    /\ SearchInit
    /\ storeOp = NoOp
    /\ prevStoreOp = NoOp
    /\ VacIdle
    /\ TransportIdle
    /\ ConsoleIdle
    /\ file \in {Missing, Blank, Undecodable, Json(<<>>), Json(<<to_dict(DataAnalyst)>>)}
    /\ wstart = file
    /\ wpc = [w \in Writers |-> "start"]
    /\ wvacs \in [Writers -> Batches]
    /\ wexisting = [w \in Writers |-> <<>>]
    /\ werror = [w \in Writers |-> "none"]
    /\ wsteps = <<>>

NextWriters == \E w \in Writers : WriterLoad(w) \/ WriterRewrite(w)

SpecWriters == InitWriters /\ [][NextWriters]_vars

-----------------------------------------------------------------------------
(* Properties of HH.load_vacancies *)

RECURSIVE Flatten(_)
Flatten(ss) == IF ss = <<>> THEN <<>> ELSE Head(ss) \o Flatten(Tail(ss))

\* the keyword is empty or made of whitespace only
IsBlank(kw) == \A i \in 1..Len(kw) : kw[i] \in Whitespace

\* t is kw without its leading and trailing whitespace
IsTrimOf(kw, t) ==
    /\ \E i \in 0..Len(kw) :
         /\ i + Len(t) <= Len(kw)
         /\ SubSeq(kw, i + 1, i + Len(t)) = t
         /\ \A k \in (1..i) \cup ((i + Len(t) + 1)..Len(kw)) : kw[k] \in Whitespace
    /\ t # <<>> => (t[1] \notin Whitespace /\ t[Len(t)] \notin Whitespace)

\* the last page response had no "items" entry or an empty one
LastPageEmpty == received # <<>> /\ Get(lastData, "items", <<>>) = <<>>

\* the last request issued was a page request that failed
LastRequestFailed == Len(requests) > Len(received)

\* the number of page requests a call with arguments a may issue
PageBudget(a) ==
    LET asked == IF a.max_pages = None THEN 2 ELSE Val(a.max_pages)
        capped == IF asked > 20 THEN 20 ELSE asked
    IN  IF capped < 0 THEN 0 ELSE capped

\* C3: when a page response has an empty items list or no items field, no
\* further page request is issued and the search returns, without error, the
\* items of the earlier pages (the empty list when this happens on page 0).
C3_EmptyPageStops ==
    LastPageEmpty =>
        /\ pc = "done"
        /\ outcome = "return"
        /\ Len(requests) = Len(received)
        /\ returned = Flatten(SubSeq(received, 1, Len(received) - 1))
        /\ (Len(received) = 1 => returned = <<>>)

C3_Witness ==
    /\ pc = "done"
    /\ Len(received) = 2
    /\ "items" \notin DOMAIN lastData
    /\ returned # <<>>

\* after a non-empty page p: stopped when p >= totalPages - 1, else going on
C4_State ==
    (received # <<>> /\ ~LastPageEmpty) =>
        LET p == Len(received) - 1
            totalPages == IF "pages" \in DOMAIN lastData THEN lastData["pages"] ELSE 0
        IN  IF p >= totalPages - 1
            THEN /\ pc = "done"
                 /\ outcome = "return"
                 /\ Len(requests) = p + 1
            ELSE \/ pc = "loop" /\ page = p + 1 /\ Len(requests) = p + 1
                 \/ /\ pc = "done"
                    /\ outcome = "return"
                    /\ Len(requests) = p + 1
                    /\ p + 1 >= PageBudget(args)
                 \/ /\ pc = "done"
                    /\ outcome = "ParserError"
                    /\ Len(requests) = p + 2

\* a search that goes on after page - 1 requests page next
C4_Step ==
    (pc = "loop" /\ page > 0 /\ page < PageBudget(args)) =>
        /\ Len(requests') = Len(requests) + 1
        /\ requests'[Len(requests')]["page"] = page

\* page 0 with one item and pages = 1: one request, one item
C4_One ==
    (/\ Len(received) = 1
     /\ Len(received[1]) = 1
     /\ "pages" \in DOMAIN lastData
     /\ lastData["pages"] = 1) =>
        (pc = "done" /\ Len(requests) = 1 /\ Len(returned) = 1)

\* C4: after a non-empty page with index p, no further page is requested when
\* p >= totalPages - 1 (a response without a page count counts as 0 pages);
\* otherwise page p + 1 is the next request while the page budget lasts;
\* a page 0 with one item and pages = 1 gives one request and one item.
C4_LastPageStops == [](C4_State /\ C4_One) /\ [][C4_Step]_vars

C4_Witness ==
    /\ pc = "done"
    /\ outcome = "return"
    /\ Len(requests) = 2
    /\ PageBudget(args) > 2
    /\ received[2] # <<>>
    /\ "pages" \in DOMAIN lastData
    /\ lastData["pages"] = 2

\* indices without gaps, at most PageBudget requests, no state where the
\* search is stuck
C5_State ==
    /\ \A i \in 1..Len(requests) : requests[i]["page"] = i - 1
    /\ Len(requests) <= PageBudget(args)
    /\ (pc = "done" /\ outcome = "return" /\ PageBudget(args) = 0) =>
            (requests = <<>> /\ returned = <<>>)
    /\ (pc = "loop" /\ PageBudget(args) = 0) => ENABLED LoopEnd
    /\ pc = "done" \/ ENABLED Next

\* a step of the loop ends the search or appends one request
C5_Step ==
    /\ pc = "loop" => (pc' = "done" \/ Len(requests') = Len(requests) + 1)
    /\ SubSeq(requests', 1, Len(requests)) = requests
    /\ Len(requests') <= Len(requests) + 1

\* C5: the page requests carry the indices 0, 1, 2, ... in this order, there
\* are at most min(maxPages, 20) of them (maxPages is 2 when not given), none
\* when maxPages <= 0 (the result is then the empty list), and every step of
\* the paging loop either ends the search or issues one more request.
C5_BoundedPaging == []C5_State /\ [][C5_Step]_vars

C5_Witness ==
    /\ pc = "done"
    /\ outcome = "return"
    /\ args.max_pages = Some(MAX_PAGES + 1)
    /\ Len(requests) = MAX_PAGES

\* C6: a search with a valid keyword performs exactly one connectivity probe,
\* which has succeeded before the first page request; when the probe fails the
\* search fails with ConnectionError and issues no page request.
C6_ProbeFirst ==
    /\ probes <= 1
    /\ (pc \in {"loop", "done"} /\ ~IsBlank(args.keyword)) => probes = 1
    /\ requests # <<>> => (probes = 1 /\ probeResult = "ok")
    /\ probeResult = "failed" =>
            (pc = "done" /\ outcome = "ConnectionError" /\ requests = <<>>)
    /\ outcome = "ConnectionError" => probeResult = "failed"

C6_Witness == probeResult = "ok" /\ Len(requests) = 2

\* C7: when a page request fails, on the first page or on a later one, the
\* search fails with ParserError and the items of the earlier pages are not
\* returned.
C7_PageFailure ==
    LastRequestFailed =>
        (pc = "done" /\ outcome = "ParserError" /\ returned = <<>>)

C7_Witness == LastRequestFailed /\ Len(requests) = 3 /\ vacancies # <<>>

\* C8: a keyword that is empty or whitespace only makes the search fail with
\* ValueError at once: no probe and no page request is issued, whatever the
\* other arguments are.
C8_BlankKeyword ==
    (pc # "idle" /\ IsBlank(args.keyword)) =>
        /\ pc = "done"
        /\ outcome = "ValueError"
        /\ probes = 0
        /\ requests = <<>>

C8_Witness ==
    /\ outcome = "ValueError"
    /\ args.keyword = <<" ", "\t">>
    /\ args.max_pages = Some(3)
    /\ args.area = Some(113)

\* the salary-range value as the claim words it: lower bound salaryFrom when
\* it is supplied and non-zero, else 0; upper bound salaryTo
RangeAsClaimed(a) ==
    <<IF a.salary_from # None /\ Val(a.salary_from) # 0 THEN Val(a.salary_from) ELSE 0,
      Val(a.salary_to)>>

\* the salary-range value with the lower bound salaryFrom only when salaryFrom
\* and salaryTo are both supplied and non-zero
RangeAsAmended(a) ==
    <<IF a.salary_from # None /\ Val(a.salary_from) # 0 /\ Val(a.salary_to) # 0
      THEN Val(a.salary_from)
      ELSE 0,
      Val(a.salary_to)>>

\* every page request carries the trimmed keyword, the clamped page size, its
\* page index and exactly the filters the caller supplied, the salary range
\* being Range(args); the filters are the same on every page
RequestsCarry(Range(_)) ==
    \A i \in 1..Len(requests) :
        LET r == requests[i]
        IN  /\ DOMAIN r \subseteq {"text", "per_page", "page", "area", "salary", "salary_range"}
            /\ IsTrimOf(args.keyword, r["text"])
            /\ r["per_page"] = (IF args.per_page > 100 THEN 100 ELSE args.per_page)
            /\ r["page"] = i - 1
            /\ ("area" \in DOMAIN r) <=> (args.area # None)
            /\ args.area # None => r["area"] = Val(args.area)
            /\ ("salary" \in DOMAIN r) <=> (args.salary_from # None)
            /\ args.salary_from # None => r["salary"] = Val(args.salary_from)
            /\ ("salary_range" \in DOMAIN r) <=> (args.salary_to # None)
            /\ args.salary_to # None => r["salary_range"] = Range(args)
            /\ [r EXCEPT !["page"] = 0] = [requests[1] EXCEPT !["page"] = 0]

C10_Concatenation ==
    (pc = "done" /\ probeResult = "ok" /\ ~LastRequestFailed) =>
        /\ outcome = "return"
        /\ returned = Flatten(received)
        /\ (received # <<>> /\ received[1] = <<>>) => returned = <<>>

C10_Witness ==
    /\ pc = "done"
    /\ outcome = "return"
    /\ Len(received) = 3
    /\ Len(returned) = 2 * MaxItems + 1

-----------------------------------------------------------------------------
(* Properties of JSONStorage *)

\* the collection the operation op found in the file
Found(op) == IF op.before.kind = "json" THEN op.before.data ELSE <<>>

\* the dictionaries of the vacancies vacs that are not in the list stored
NotYetStored(vacs, stored) ==
    LET dicts == [i \in 1..Len(vacs) |-> to_dict(vacs[i])]
        NotIn(d) == \A j \in 1..Len(stored) : stored[j] # d
    IN  SelectSeq(dicts, NotIn)

\* C1: add is idempotent: a second add of the same list completes and leaves
\* the persisted collection as the first add left it.
C1_AddIdempotent ==
    (storeOp.name = "add" /\ prevStoreOp.name = "add" /\ storeOp.arg = prevStoreOp.arg) =>
        /\ prevStoreOp.error = "none"
        /\ storeOp.error = "none"
        /\ file = storeOp.before

\* C2: after add(vacs), a query without criteria returns the entries persisted
\* before followed by the vacancies of vacs that were not persisted yet, in
\* their order.
C2_AddThenQuery ==
    (storeOp.name = "get" /\ storeOp.arg = EmptyDict /\ prevStoreOp.name = "add") =>
        /\ storeOp.error = "none"
        /\ [i \in 1..Len(storeOp.result) |-> to_dict(storeOp.result[i])]
             = Found(prevStoreOp) \o NotYetStored(prevStoreOp.arg, Found(prevStoreOp))

\* the file the operation found can be read and every dictionary in it has
\* the two keys Vacancy.__init__ requires
Readable(f) ==
    /\ f.kind # "undecodable"
    /\ f.kind = "json" =>
         \A i \in 1..Len(f.data) : {"title", "url"} \subseteq DOMAIN f.data[i]

\* two letters that differ in case at most
SameLetter(a, b) ==
    \/ a = b
    \/ {a, b} \in {{"A", "a"}, {"D", "d"}, {"P", "p"}, {"Q", "q"}}

\* word occurs in text when the case of the letters is ignored
OccursIgnoringCase(word, text) ==
    \E off \in 0..(Len(text) - Len(word)) :
        \A k \in 1..Len(word) : SameLetter(word[k], text[off + k])

\* twice the average salary of r as the specification defines it
TwiceAverage(r) ==
    CASE r.salary_from > 0 /\ r.salary_to > 0 -> r.salary_from + r.salary_to
      [] r.salary_from > 0 -> 2 * r.salary_from
      [] r.salary_to > 0 -> 2 * r.salary_to
      [] OTHER -> 0

\* the record r satisfies every criterion of c that the store knows
Satisfies(r, c) ==
    /\ "keyword" \in DOMAIN c =>
         \/ OccursIgnoringCase(c["keyword"], r.title)
         \/ OccursIgnoringCase(c["keyword"], r.description.s)
    /\ "min_salary" \in DOMAIN c => TwiceAverage(r) >= 2 * c["min_salary"]

\* the positions of the records of the file f that satisfy c, in file order
Selected(f, c) ==
    LET data == IF f.kind = "json" THEN f.data ELSE <<>>
        Keep(i) == Satisfies(Vacancy(data[i]), c)
    IN  SelectSeq([i \in 1..Len(data) |-> i], Keep)

\* C11: a query returns, in file order, exactly the persisted records that
\* satisfy every supplied criterion (keyword: case-insensitive substring of
\* title or description; min_salary: average salary at least that much); any
\* other criteria key changes nothing and raises nothing.
C11_QueryFilters ==
    (storeOp.name = "get" /\ Readable(storeOp.before)) =>
        LET sel == Selected(storeOp.before, storeOp.arg)
        IN  /\ storeOp.error = "none"
            /\ storeOp.result
                 = [k \in 1..Len(sel) |-> Vacancy(storeOp.before.data[sel[k]])]

C11_Witness ==
    /\ storeOp.name = "get"
    /\ storeOp.error = "none"
    /\ DOMAIN storeOp.arg = {"min_salary", "city"}
    /\ storeOp.arg["min_salary"] = 120000
    /\ storeOp.before = Json(<<to_dict(PythonDev), to_dict(DataAnalyst)>>)
    /\ storeOp.result = <<PythonDev>>

\* after a clear that completed the file holds the empty collection
C12_State ==
    (storeOp.name = "clear" /\ storeOp.error = "none") => file = Json(<<>>)

\* while no add and no further clear runs, the file keeps the empty collection
\* and a query without criteria returns the empty list
C12_Step ==
    (file = Json(<<>>) /\ storeOp'.name \in {"get", "delete"}) =>
        /\ file' = Json(<<>>)
        /\ (storeOp'.name = "get" /\ storeOp'.arg = EmptyDict) =>
             (storeOp'.error = "none" /\ storeOp'.result = <<>>)

\* C12: after clear, from any prior state of the file (populated, empty,
\* missing, unparsable), the file holds an empty collection and a query
\* without criteria returns an empty list, until the next add.
C12_ClearEmpties == []C12_State /\ [][C12_Step]_vars

C12_Witness ==
    /\ prevStoreOp.name = "clear"
    /\ prevStoreOp.error = "none"
    /\ prevStoreOp.before.kind = "json"
    /\ Len(prevStoreOp.before.data) = MaxStored
    /\ storeOp.name = "get"
    /\ storeOp.arg = EmptyDict
    /\ storeOp.result = <<>>
    /\ file = Json(<<>>)

\* the file holds no JSON list: it is missing, empty or unparsable
NoCollection(f) == f.kind \in {"missing", "empty", "corrupt", "undecodable"}

\* how add(vacs) ends on a store whose file holds the empty list: the write is
\* reached for an empty vacs only
AsOnEmptyStore(op) ==
    IF op.arg = <<>> THEN op.error \in {"none", "OSError"}
    ELSE op.error = "TypeError"

\* C13: reading a file that is missing, empty or holds unparsable content
\* raises nothing: a query returns the empty list and add behaves as on an
\* empty store.
C13_UnreadableIsEmpty ==
    /\ (storeOp.name = "get" /\ NoCollection(storeOp.before)) =>
         (storeOp.error = "none" /\ storeOp.result = <<>>)
    /\ (storeOp.name = "add" /\ NoCollection(storeOp.before)) =>
         AsOnEmptyStore(storeOp)

\* C18: a query rebuilds a record from every persisted dictionary without
\* error, also when the dictionary has extra keys or lacks some of the seven
\* keys.
C18_TolerantRead ==
    (storeOp.name = "get" /\ storeOp.before.kind = "json") =>
        /\ storeOp.error = "none"
        /\ Len(storeOp.before.data) = 1 /\ storeOp.arg = EmptyDict =>
             Len(storeOp.result) = 1

\* C19: when the write of add or clear fails, the file still holds what it
\* held before the operation.
C19_FailedWriteKeepsFile ==
    (storeOp.name \in {"add", "clear"} /\ storeOp.error = "OSError") =>
        file = storeOp.before

-----------------------------------------------------------------------------
(* Properties of Vacancy *)

\* C14: every vacancy constructed, from keyword arguments that name title and
\* url or from a raw item, has salary bounds that are non-negative integers,
\* and the construction raises nothing on account of a salary value.
C14_SalaryNonNegative ==
    /\ (vacOp.name = "init" /\ {"title", "url"} \subseteq DOMAIN vacOp.arg[1]) =>
         /\ vacOp.error = "none"
         /\ vacOp.result[1].salary_from >= 0
         /\ vacOp.result[1].salary_to >= 0
    /\ (vacOp.name = "from_hh_dict" /\ vacOp.error = "none") =>
         /\ vacOp.result[1].salary_from >= 0
         /\ vacOp.result[1].salary_to >= 0

\* C15: avg_salary is the mean of the bounds when both are positive, the
\* positive bound when one is, 0 when none is; and a < b holds exactly when
\* avg_salary(a) < avg_salary(b), whatever the other fields are.
C15_AverageOrders ==
    /\ vacOp.name = "avg_salary" =>
         vacOp.result = <<TwiceAverage(vacOp.arg[1])>>
    /\ vacOp.name = "lt" =>
         vacOp.result = <<TwiceAverage(vacOp.arg[1]) < TwiceAverage(vacOp.arg[2])>>

C15_Witness ==
    /\ vacOp.name = "lt"
    /\ vacOp.result = <<TRUE>>
    /\ vacOp.arg[1].salary_from > vacOp.arg[2].salary_from
    /\ vacOp.arg[1].salary_from > 0
    /\ vacOp.arg[1].salary_to > 0
    /\ vacOp.arg[2].salary_from = 0
    /\ vacOp.arg[1].title # vacOp.arg[2].title

\* the entry key of the raw item is absent, null or a mapping
OptionalMapping(data, key) ==
    key \in DOMAIN data.d => data.d[key].t \in {"None", "dict"}

\* a raw item that is a mapping whose salary and snippet are absent, null or
\* mappings
WellFormed(data) ==
    /\ data.t = "dict"
    /\ OptionalMapping(data, "salary")
    /\ OptionalMapping(data, "snippet")

\* C16: for a raw item that is a mapping, the vacancy mapped from it and the
\* vacancy rebuilt from the dictionary of that vacancy are equal in all seven
\* fields.
C16_RoundTrip ==
    (vacOp.name = "round_trip" /\ WellFormed(vacOp.arg[1])) =>
        /\ vacOp.error = "none"
        /\ \A k \in VacancyKeys : vacOp.result[1][k] = vacOp.result[2][k]

\* C17: mapping a raw item fails only when the item is no mapping, and then
\* with ValueError; for a mapping it returns a vacancy, and the fields of an
\* absent salary or snippet take their defaults.
C17_MappingTotal ==
    vacOp.name = "from_hh_dict" =>
        LET data == vacOp.arg[1]
        IN  /\ data.t # "dict" => vacOp.error = "ValueError"
            /\ data.t = "dict" =>
                 /\ vacOp.error = "none"
                 /\ "salary" \notin DOMAIN data.d =>
                      /\ vacOp.result[1].salary_from = 0
                      /\ vacOp.result[1].salary_to = 0
                      /\ vacOp.result[1].currency = PyStr(RUB)
                 /\ "snippet" \notin DOMAIN data.d =>
                      /\ vacOp.result[1].description = PyStr(NoDescription)
                      /\ vacOp.result[1].requirements = PyStr(NoRequirements)

-----------------------------------------------------------------------------
(* Properties of HH.connect *)

\* the probe completed: no exception of the transport, no error status
ProbeCompleted ==
    /\ probe.exception = "none"
    /\ probe.status \in 100..399

\* C20: connect issues exactly one probe request; it returns True when the
\* request completes with no transport exception and no error HTTP status,
\* and in every other case it raises ConnectionError.
C20_Connect ==
    /\ probeResult = "none" => (probes = 0 /\ probe = NoProbe)
    /\ probeResult # "none" => probes = 1
    /\ probeResult = "ok" <=> (probes = 1 /\ ProbeCompleted)
    /\ (probes = 1 /\ ~ProbeCompleted) =>
         (probeResult = "failed" /\ pc = "done" /\ outcome = "ConnectionError")

C20_Witness ==
    /\ probes = 1
    /\ probe = Responds(404)
    /\ outcome = "ConnectionError"

-----------------------------------------------------------------------------
(* Further properties of JSONStorage and Vacancy *)

\* C21: delete and query, for any criteria, leave the backing file as it was,
\* and delete returns without error.
C21_ReadOnly ==
    /\ storeOp.name \in {"get", "delete"} => file = storeOp.before
    /\ storeOp.name = "delete" => storeOp.error = "none"

C21_Witness ==
    /\ storeOp.name = "delete"
    /\ storeOp.arg # EmptyDict
    /\ storeOp.before.kind = "json"
    /\ Len(storeOp.before.data) = MaxStored
    /\ file = storeOp.before
    /\ prevStoreOp.name = "get"

\* C22: every vacancy constructed has a non-empty title, for every title
\* input: an input that carries no title gives the sentinel, other text is
\* kept trimmed.
C22_TitleNonEmpty ==
    (vacOp.name \in {"init", "from_hh_dict"} /\ vacOp.error = "none") =>
        vacOp.result[1].title # <<>>

\* no two entries of the persisted collection are equal
NoDuplicates(data) ==
    \A i, j \in 1..Len(data) : data[i] = data[j] => i = j

-----------------------------------------------------------------------------
(* Further properties of HH.load_vacancies *)

\* C24: the exception of a search tells the phase that failed: a failure of
\* the probe is raised as ConnectionError, a failure of a page request after a
\* successful probe as a ParserError that is no ConnectionError, and no
\* failure of the transport leaves the search as anything else.
C24_FailurePhase ==
    /\ (probes = 1 /\ ~ProbeCompleted) => outcome = "ConnectionError"
    /\ (probes = 1 /\ ProbeCompleted /\ LastRequestFailed) => outcome = "ParserError"
    /\ outcome = "ConnectionError" => (requests = <<>> /\ ~ProbeCompleted)
    /\ outcome = "ParserError" => (ProbeCompleted /\ LastRequestFailed)
    /\ pc = "done" =>
         outcome \in {"return", "ValueError", "ConnectionError", "ParserError"}

C24_Witness ==
    /\ pc = "done"
    /\ probe = Responds(200)
    /\ Len(requests) = 2
    /\ Len(received) = 1
    /\ outcome = "ParserError"

-----------------------------------------------------------------------------
(* The file after a write *)

\* the file holds a JSON list of dictionaries with the seven keys
ValidCollection(f) ==
    /\ f.kind = "json"
    /\ \A i \in 1..Len(f.data) : DOMAIN f.data[i] = VacancyKeys

\* C25: once the store has written the file, also by an add or clear whose
\* write failed partway, the file parses as a JSON list of dictionaries with
\* the seven keys.
C25_FileStaysValid ==
    (/\ storeOp.name \in {"add", "clear"}
     /\ storeOp.error \in {"none", "OSError"}
     /\ ValidCollection(storeOp.before)) => ValidCollection(file)

-----------------------------------------------------------------------------
(* Properties of the session *)

TransientStatuses == {429, 500, 502, 503, 504}

\* the attempt met a response with a transient status
MetTransient(r) == r.exception = "none" /\ r.status \in TransientStatuses

\* the attempt met no response
MetNoResponse(r) == r.exception # "none"

\* the attempts before the last one: those that were followed by another
Retried == { k \in 1..Len(attempts) : k < Len(attempts) }

\* at most 1 + max_retries attempts, and one outcome: the first response with
\* a status that is not transient, or one failure when the attempts are used up
SingleOutcome ==
    /\ Len(attempts) <= 1 + retry_total
    /\ attempts = <<>> => delivered = NoProbe
    /\ attempts # <<>> =>
         LET last == attempts[Len(attempts)]
         IN  IF MetTransient(last) \/ MetNoResponse(last)
             THEN IF Len(attempts) = 1 + retry_total
                  THEN delivered.exception # "none"
                  ELSE delivered = NoProbe
             ELSE delivered = last

-----------------------------------------------------------------------------
(* Properties of the console *)

\* C26: the session of every client that was created is released when the
\* client is no longer needed: that of main.py after the search returned or
\* failed, that of the console when the menu loop has ended; and the requests
\* of a search are made on a session that is not released.
C26_SessionsReleased ==
    /\ mainPc = "done" /\ mainSession # "none" => mainSession = "closed"
    /\ ui # "menu" => uiSession = "closed"
    /\ mainOutcome # NoMainOutcome => mainOutcome.session = "open"
    /\ uiEvent.choice = "1" => uiSession = "open"

\* C28: the menu loop ends only on the choice "0": after every other choice,
\* also one whose operation raised, the loop is back at the menu.
C28_LoopEndsOnlyOnExit ==
    ui # "menu" => ui = "exited" /\ uiEvent.choice = "0"

-----------------------------------------------------------------------------
(* Properties of concurrent writers *)

\* the collection read from the file f
Loaded(f) == IF f.kind = "json" THEN f.data ELSE <<>>

\* the file after one whole call of add_vacancies(vacs) on the file f, the
\* write completing
AfterAdd(f, vacs) ==
    IF f.kind = "undecodable" \/ Extended(Loaded(f), vacs).error # "none" THEN f
    ELSE Json(Extended(Loaded(f), vacs).data)

\* the file after the two calls, one after the other, in either order
SerialResults ==
    { AfterAdd(AfterAdd(wstart, wvacs[1]), wvacs[2]),
      AfterAdd(AfterAdd(wstart, wvacs[2]), wvacs[1]) }

Elements(seq) == { seq[i] : i \in 1..Len(seq) }

\* both writers loaded before either rewrote, and both calls have ended
BothLoadedFirst ==
    /\ \A w \in Writers : wpc[w] = "done"
    /\ Len(wsteps) = 4
    /\ wsteps[1][2] = "load" /\ wsteps[2][2] = "load"

\* each writer adds records, which the other does not add and the file does
\* not hold, and no read or write of the file fails
DisjointAdds ==
    /\ \A w \in Writers : wvacs[w] # <<>>
    /\ Elements(wvacs[1]) \cap Elements(wvacs[2]) = {}
    /\ \A w \in Writers :
         { to_dict(v) : v \in Elements(wvacs[w]) } \cap Elements(Loaded(wstart)) = {}
    /\ \A w \in Writers : werror[w] \notin {"OSError", "UnicodeDecodeError"}

\* C29: when two writers that add records both load before either rewrites,
\* the collection persisted at the end is that of no serial order of the two
\* calls: the records of the writer that rewrote first are lost.
C29_LostUpdate ==
    BothLoadedFirst /\ DisjointAdds => file \notin SerialResults

=============================================================================
